---- MODULE Spec2Model ----
(***************************************************************************)
(* A model of blur_faces/app.py: the Lambda handler that walks a batch of  *)
(* S3 notification records, blurs or pixelates the faces Amazon            *)
(* Rekognition finds in each uploaded image and stores the result, and the *)
(* two region anonymizers it calls.                                        *)
(*                                                                         *)
(* Strings are sequences of tokens (a token is a run of characters holding *)
(* none of '/', '.', '+', '%'), so that unquote_plus and the two split     *)
(* calls are computed as the code computes them.  An image is a record     *)
(* [h, w, px]; Pixel(image, y, x) is one channel of its pixel in row y,    *)
(* column x (0-based, as in numpy); the three channels of a pixel are      *)
(* handled alike and independently by every operation modelled here.       *)
(***************************************************************************)
EXTENDS Integers, Sequences, FiniteSets, TLC

(***************************************************************************)
(* Bounds of the model.                                                    *)
(***************************************************************************)
MaxRecords == 2     \* records in one batch
ImgW == 4           \* width of a decoded image
ImgH == 4           \* height of a decoded image
MaxDim == 30        \* largest region side given to the blur variant on its own
MaxArea == 6        \* most pixels of a region given to the pixelate variant on its own
MaxBlocks == 3      \* largest blocks value given to the pixelate variant on its own
Den == 4            \* bounding-box fractions are multiples of 1/Den
MaxSide == 3        \* largest side of the small images given to the face loop on its own
WideW == 12         \* width of the wide image given to the face loop on its own
WideH == 4          \* height of that image

(***************************************************************************)
(* Program constants.                                                      *)
(***************************************************************************)
MaxSize == 15728640     \* app.py:119
Factor == 3             \* app.py:173, factor=3.0
Blocks == 10            \* app.py:171, blocks=10

\* What stands for a value that is not there: a field the record does not
\* carry, a local variable no assignment has reached, Python's None, or a
\* variable whose value nothing reads any more.  None of them is a value the
\* program can hold: bucket names are lower case, a key has at least one
\* character, a size is not negative, an image has no negative side.
MISSING == "MISSING"
UNBOUND == "UNBOUND"
NONE == "NONE"
NoKey == <<>>
NoSize == 0 - 1
NoImage == [h |-> 0 - 1, w |-> 0 - 1, px |-> <<>>]
NoResult == [statusCode |-> 0]
NoResolved == [box |-> <<>>, rect |-> <<>>]

E_NoS3 == "Lambda invoked without S3 event data. Event needs to reference a S3 bucket and object key."
E_Size == "Maximum image size stored as an Amazon S3 object is limited to 15 MB for Amazon Rekognition."
E_Type == "Unsupported file type. Amazon Rekognition Image currently supports the JPEG and PNG image formats."
E_Get == "Lambda role does not have permission to call GetObject for the input S3 bucket, or object does not exist."
E_Detect == "Lambda role does not have permission to call DetectFaces in Amazon Rekognition."
E_Meta == "Unable to get object metadata from S3. Check object key, region and/or access permissions for input S3 bucket."
E_Put == "Lambda role does not have permission to call PutObject for the output S3 bucket."

(***************************************************************************)
(* Strings.                                                                *)
(***************************************************************************)
\* The index of the last c in s, 0 when s holds none.
RECURSIVE LastIndexOf(_, _)
LastIndexOf(s, c) ==
    IF s = <<>> THEN 0
    ELSE IF s[Len(s)] = c THEN Len(s)
    ELSE LastIndexOf(SubSeq(s, 1, Len(s) - 1), c)

\* s.split(c)[-1]
SplitLast(s, c) == SubSeq(s, LastIndexOf(s, c) + 1, Len(s))

\* urllib.parse.unquote_plus on one token
UnquoteToken(t) ==
    CASE t = "+" -> " "
      [] t = "%2E" -> "."
      [] t = "%2F" -> "/"
      [] OTHER -> t

\* urllib.parse.unquote_plus(raw)
unquote_plus(raw) == [i \in 1..Len(raw) |-> UnquoteToken(raw[i])]

\* key.split('/')[-1]
Filename(k) == SplitLast(k, "/")

\* '/tmp/{}'.format(filename)
LocalFilename(k) == <<"/", "tmp", "/">> \o Filename(k)

SupportedTypes == {<<"png">>, <<"jpeg">>, <<"jpg">>}

\* The type check, were it to compare without regard to case.
UnsupportedIgnoringCase(local) ==
    SplitLast(local, ".") \notin (SupportedTypes \cup {<<"PNG">>, <<"JPEG">>, <<"JPG">>})

\* local_filename.split('.')[-1] not in ['png', 'jpeg', 'jpg']
Unsupported(local) == SplitLast(local, ".") \notin SupportedTypes

\* The size check, were it to refuse the limit itself.
TooLargeInclusive(sz) == sz >= MaxSize

\* size > 15728640
TooLarge(sz) == sz > MaxSize

(***************************************************************************)
(* The inputs of a batch.                                                  *)
(***************************************************************************)
Buckets == {"in1", "in2"}
\* "d%2Fa%2Epng", "a.PNG" and "d.jpg/a", as the notification carries them.
RawKeys == { <<"d", "%2F", "a", "%2E", "png">>,
             <<"a", ".", "PNG">>,
             <<"d", ".", "jpg", "/", "a">> }
Sizes == {MaxSize, MaxSize + 1}

\* One notification record: record['s3']['bucket']['name'],
\* record['s3']['object']['key'] and record['s3']['object']['size'],
\* each of which may be absent.
Records == [bucket : Buckets \cup {MISSING},
            key : RawKeys \cup {NoKey},
            size : Sizes \cup {NoSize}]

WellFormed(r) == r.bucket # MISSING /\ r.key # NoKey /\ r.size # NoSize

(***************************************************************************)
(* Images and regions.                                                     *)
(***************************************************************************)
Min(a, b) == IF a < b THEN a ELSE b
Max(a, b) == IF a > b THEN a ELSE b

\* The rows 0..h-1 and the columns 0..w-1 of an image.
Rows(h) == 0..(h - 1)
Cols(w) == 0..(w - 1)

\* The h x w image whose pixel in row y, column x is f[y][x]; px is the
\* sequence of its rows, each the sequence of its pixels.
MkImage(h, w, f) ==
    [h |-> h, w |-> w,
     px |-> [y \in 1..h |-> [x \in 1..w |-> f[y - 1][x - 1]] \o <<>>] \o <<>>]

\* image[y, x]
Pixel(image, y, x) == image.px[y + 1][x + 1]

\* Every h x w region whose channel values lie in vals.
RegionsOf(h, w, vals) ==
    {MkImage(h, w, p) : p \in [Rows(h) -> [Cols(w) -> vals]]}

\* image[y1:y2, x1:x2] for indices >= 0: numpy clips a slice to the array.
Slice(image, y1, y2, x1, x2) ==
    LET ya == Min(y1, image.h)
        yb == Max(ya, Min(y2, image.h))
        xa == Min(x1, image.w)
        xb == Max(xa, Min(x2, image.w))
    IN  MkImage(yb - ya, xb - xa,
                [y \in Rows(yb - ya) |-> [x \in Cols(xb - xa) |-> Pixel(image, ya + y, xa + x)]])

\* The assignment, were it to ignore where the slice begins.
PasteAtOrigin(image, y1, x1, face) ==
    MkImage(image.h, image.w,
            [y \in Rows(image.h) |-> [x \in Cols(image.w) |->
                IF y < face.h /\ x < face.w
                THEN Pixel(face, y, x)
                ELSE Pixel(image, y, x)]])

\* image[y1:y2, x1:x2] = face, face having the shape of that slice.
Paste(image, y1, x1, face) ==
    LET ya == Min(y1, image.h)
        xa == Min(x1, image.w)
    IN  MkImage(image.h, image.w,
                [y \in Rows(image.h) |-> [x \in Cols(image.w) |->
                    IF /\ ya <= y /\ y < ya + face.h
                       /\ xa <= x /\ x < xa + face.w
                    THEN Pixel(face, y - ya, x - xa)
                    ELSE Pixel(image, y, x)]])

(***************************************************************************)
(* anonymize_face_simple: the blur variant.                                *)
(***************************************************************************)
\* int(w / factor)
KernelRaw(d) == d \div Factor

\* if k % 2 == 0: k -= 1
ForceOdd(k) == IF k % 2 = 0 THEN k - 1 ELSE k

\* (kW, kH) as handed to cv2.GaussianBlur
Kernel(image) == <<ForceOdd(KernelRaw(image.w)), ForceOdd(KernelRaw(image.h))>>

\* cv2.GaussianBlur(image, (kW, kH), 0) takes the kernel only when both sides
\* are positive and odd, and raises cv2.error otherwise.
KernelAccepted(k) == k[1] > 0 /\ k[1] % 2 = 1 /\ k[2] > 0 /\ k[2] % 2 = 1

\* The pixels of the region that the k[1] x k[2] kernel centred on (y, x)
\* covers; the border is mirrored into the region.
Window(image, y, x, k) ==
    {Pixel(image, yy, xx) :
        yy \in Max(0, y - (k[2] \div 2))..Min(image.h - 1, y + (k[2] \div 2)),
        xx \in Max(0, x - (k[1] \div 2))..Min(image.w - 1, x + (k[1] \div 2))}

LeastOf(S) == CHOOSE v \in S : \A u \in S : v <= u
GreatestOf(S) == CHOOSE v \in S : \A u \in S : v >= u

\* What the first n pixels of the blurred region, row by row, may be: every
\* pixel is a weighted average of the pixels its kernel covers (the weights
\* are OpenCV's), hence a value between the least and the greatest of them.
RECURSIVE BlurredPixels(_, _, _)
BlurredPixels(image, k, n) ==
    IF n = 0 THEN {<<>>}
    ELSE LET win == Window(image, (n - 1) \div image.w, (n - 1) % image.w, k)
         IN  {Append(s, v) : s \in BlurredPixels(image, k, n - 1),
                             v \in LeastOf(win)..GreatestOf(win)}

\* The regions cv2.GaussianBlur may return for an accepted kernel; they have
\* the shape of the input, and a 1 x 1 kernel copies the input.
GaussianBlur(image, k) ==
    {MkImage(image.h, image.w,
             [y \in Rows(image.h) |-> [x \in Cols(image.w) |-> s[y * image.w + x + 1]]]) :
        s \in BlurredPixels(image, k, image.h * image.w)}

(***************************************************************************)
(* anonymize_face_pixelate: the pixelate variant.                          *)
(***************************************************************************)
\* np.linspace(0, n, blocks + 1, dtype="int"), as a function on 0..blocks
Linspace(n, blocks) == [i \in 0..blocks |-> (i * n) \div blocks]

\* The sum of the first k pixels, row by row, of the cw-wide block at (sy, sx).
RECURSIVE SumBlock(_, _, _, _, _)
SumBlock(image, sy, sx, cw, k) ==
    IF k = 0 THEN 0
    ELSE Pixel(image, sy + ((k - 1) \div cw), sx + ((k - 1) % cw))
         + SumBlock(image, sy, sx, cw, k - 1)

\* int(cv2.mean(image[startY:endY, startX:endX])[c]); cv2.mean of an empty
\* array is 0.
MeanOf(image, startY, endY, startX, endX) ==
    LET n == (endY - startY) * (endX - startX)
    IN  IF n = 0 THEN 0
        ELSE SumBlock(image, startY, startX, endX - startX, n) \div n

\* cv2.rectangle(image, (startX, startY), (endX, endY), colour, -1): a filled
\* rectangle holds both corner points, and is clipped to the image.
Rectangle(image, startX, startY, endX, endY, colour) ==
    MkImage(image.h, image.w,
            [y \in Rows(image.h) |-> [x \in Cols(image.w) |->
                IF startX <= x /\ x <= endX /\ startY <= y /\ y <= endY
                THEN colour
                ELSE Pixel(image, y, x)]])

\* The body of the two loops for row i and column j of the grid (1-based).
PixelateCell(image, blocks, i, j) ==
    LET xSteps == Linspace(image.w, blocks)
        ySteps == Linspace(image.h, blocks)
        startX == xSteps[j - 1]
        startY == ySteps[i - 1]
        endX == xSteps[j]
        endY == ySteps[i]
    IN  Rectangle(image, startX, startY, endX, endY,
                  MeanOf(image, startY, endY, startX, endX))

\* The inner loop from column j on, in row i of the grid (a region without
\* pixels is left as it is).
RECURSIVE PixelateRow(_, _, _, _)
PixelateRow(image, blocks, i, j) ==
    IF j > blocks \/ image.w * image.h = 0 THEN image
    ELSE PixelateRow(PixelateCell(image, blocks, i, j), blocks, i, j + 1)

\* The outer loop from row i on.
RECURSIVE PixelateRows(_, _, _)
PixelateRows(image, blocks, i) ==
    IF i > blocks \/ image.w * image.h = 0 THEN image
    ELSE PixelateRows(PixelateRow(image, blocks, i, 1), blocks, i + 1)

anonymize_face_pixelate(image, blocks) == PixelateRows(image, blocks, 1)

(***************************************************************************)
(* What the collaborators may answer.                                      *)
(***************************************************************************)
\* The images cv2.imread may decode.
Images == { MkImage(ImgH, ImgW, [y \in Rows(ImgH) |-> [x \in Cols(ImgW) |-> 10 * (y * ImgW + x)]]),
            MkImage(ImgH, ImgW, [y \in Rows(ImgH) |-> [x \in Cols(ImgW) |-> 200 * ((x + y) % 2)]]) }

\* A BoundingBox of the detector, each fraction given as its numerator over Den.
Box(l, t, w, h) == [Left |-> l, Top |-> t, Width |-> w, Height |-> h]

\* response['FaceDetails']
FaceLists == { <<>>,
               <<Box(0, 0, 4, 4)>>,
               <<Box(1, 1, 2, 2)>>,
               <<Box(0, 0, 3, 3), Box(2, 1, 2, 3)>>,
               <<Box(2, 2, 4, 4)>> }

\* The scaling, were it to round up.
ScaleUp(num, side) == (num * side + Den - 1) \div Den

\* int(fraction * side)
Scale(num, side) == (num * side) \div Den

\* x1, x2, y1, y2 of a detected face
Rect(face, image_width, image_height) ==
    LET x1 == Scale(face.Left, image_width)
        y1 == Scale(face.Top, image_height)
    IN  [x1 |-> x1, x2 |-> x1 + Scale(face.Width, image_width),
         y1 |-> y1, y2 |-> y1 + Scale(face.Height, image_height)]

\* failed_records.append({"bucket": ..., "key": ..., "error_message": ...})
add_failed(b, error_message, failed, k) ==
    Append(failed, [bucket |-> b, key |-> k, error_message |-> error_message])

(***************************************************************************)
(* The state.                                                              *)
(***************************************************************************)
VARIABLES
    has_records,        \* whether the event carries 'Records'
    event,              \* the records of event['Records'] the loop has taken so far
    blur_type,          \* os.environ['BLUR_TYPE']
    pc,                 \* where lambda_handler stands
    bucket, key,        \* locals of lambda_handler; they outlive an iteration
    size, local_filename, image, faces,   \* locals read only in the iteration that set them
    failed_records, successful_records,
    tmp,                \* the files that exist under /tmp
    error,              \* the exception that left lambda_handler, NONE without one
    result,             \* what lambda_handler returned, NONE before
    calls,              \* history: the calls made for the current record, and the
                        \* exception of a collaborator that raised one
    decoded,            \* history: the image cv2.imread gave, while the record is worked on
    sent,               \* history: the image upload_file sent, until the success is recorded
    outcomes,           \* history: which record every entry of the two lists came from
    resolved,           \* history: the last bounding box of the record and its rectangle
    region, kernel, blurred,              \* anonymize_face_simple on its own
    grid, original, blocks, cell          \* anonymize_face_pixelate on its own

hvars == <<has_records, event, blur_type, pc, bucket, key, size, local_filename, image,
           faces, failed_records, successful_records, tmp, error, result, calls,
           decoded, sent, outcomes, resolved>>
bvars == <<region, kernel, blurred>>
pvars == <<grid, original, blocks, cell>>
vars == <<hvars, bvars, pvars>>

\* The current record of the loop.
record == event[Len(event)]

(***************************************************************************)
(* lambda_handler                                                          *)
(***************************************************************************)
HandlerInit ==
    /\ has_records \in BOOLEAN
    /\ blur_type \in {"pixelate", "blur"}
    /\ event = <<>>
    /\ pc = "start"
    /\ bucket = UNBOUND /\ key = NoKey
    /\ size = NoSize /\ local_filename = NoKey /\ image = NoImage /\ faces = <<>>
    /\ failed_records = <<>> /\ successful_records = <<>>
    /\ tmp = {}
    /\ error = NONE /\ result = NoResult
    /\ calls = <<>> /\ decoded = NoImage /\ sent = NoImage /\ outcomes = <<>>
    /\ resolved = NoResolved

\* An exception leaves lambda_handler.
Raise(e) ==
    /\ pc' = "raised"
    /\ error' = e
    /\ UNCHANGED <<failed_records, successful_records, outcomes, result, sent>>

\* add_failed(bucket, error_message, failed_records, key); continue
\* The locals no later iteration reads before setting them are forgotten, and
\* so are the images the history kept for this record.
FailAndContinue(b, k, error_message) ==
    /\ failed_records' = add_failed(b, error_message, failed_records, k)
    /\ outcomes' = Append(outcomes, [rec |-> Len(event), list |-> "failed",
                                     at |-> Len(failed_records) + 1])
    /\ pc' = "next"
    /\ size' = NoSize /\ local_filename' = NoKey /\ image' = NoImage /\ faces' = <<>>
    /\ decoded' = NoImage /\ sent' = NoImage /\ resolved' = NoResolved
    /\ UNCHANGED <<successful_records, error, result>>

\* for record in event['Records']: a missing 'Records' raises KeyError.
Start ==
    /\ pc = "start"
    /\ IF has_records
       THEN pc' = "next" /\ UNCHANGED error
       ELSE pc' = "raised" /\ error' = "KeyError"
    /\ UNCHANGED <<has_records, event, blur_type, bucket, key, size, local_filename,
                   image, faces, failed_records, successful_records, tmp, result,
                   calls, decoded, resolved, sent, outcomes>>
    /\ UNCHANGED <<bvars, pvars>>

\* The loop takes the next record of the batch.
NextRecord ==
    /\ pc = "next"
    /\ Len(event) < MaxRecords
    /\ \E r \in Records : event' = Append(event, r)
    /\ pc' = "parse"
    /\ calls' = <<>>
    /\ UNCHANGED <<has_records, blur_type, bucket, key, size, local_filename, image,
                   faces, failed_records, successful_records, tmp, error, result,
                   decoded, resolved, sent, outcomes>>
    /\ UNCHANGED <<bvars, pvars>>

\* The try block of lines 106-116.  The three subscripts are evaluated in
\* turn; a KeyError leaves the assignments made so far in place and calls
\* add_failed with the current bucket and key, which raises UnboundLocalError
\* when one of them was never assigned.
Parse ==
    /\ pc = "parse"
    /\ LET b == IF record.bucket = MISSING THEN bucket ELSE record.bucket
           k == IF record.bucket = MISSING \/ record.key = NoKey
                THEN key ELSE unquote_plus(record.key)
       IN  /\ bucket' = b
           /\ key' = k
           /\ IF WellFormed(record)
              THEN /\ size' = record.size
                   /\ local_filename' = LocalFilename(k)
                   /\ pc' = "size_check"
                   /\ UNCHANGED <<image, faces, failed_records, successful_records,
                                  error, result, decoded, resolved, sent, outcomes>>
              ELSE IF b = UNBOUND \/ k = NoKey
              THEN /\ Raise("UnboundLocalError")
                   /\ UNCHANGED <<size, local_filename, image, faces, decoded, resolved>>
              ELSE FailAndContinue(b, k, E_NoS3)
    /\ UNCHANGED <<has_records, event, blur_type, tmp, calls>>
    /\ UNCHANGED <<bvars, pvars>>

\* Lines 118-122.
SizeCheck ==
    /\ pc = "size_check"
    /\ IF TooLarge(size)
       THEN FailAndContinue(bucket, key, E_Size)
       ELSE /\ pc' = "type_check"
            /\ UNCHANGED <<size, local_filename, image, faces, failed_records,
                           successful_records, error, result, decoded, resolved, sent, outcomes>>
    /\ UNCHANGED <<has_records, event, blur_type, bucket, key, tmp, calls>>
    /\ UNCHANGED <<bvars, pvars>>

\* Lines 124-128.
TypeCheck ==
    /\ pc = "type_check"
    /\ IF Unsupported(local_filename)
       THEN FailAndContinue(bucket, key, E_Type)
       ELSE /\ pc' = "fetch"
            /\ UNCHANGED <<size, local_filename, image, faces, failed_records,
                           successful_records, error, result, decoded, resolved, sent, outcomes>>
    /\ UNCHANGED <<has_records, event, blur_type, bucket, key, tmp, calls>>
    /\ UNCHANGED <<bvars, pvars>>

\* The fetch step, were its handler to lack the continue of line 136.
FetchAndGoOn ==
    /\ pc = "fetch"
    /\ \E answer \in {"ok", "ClientError"} :
          IF answer = "ok"
          THEN /\ calls' = Append(calls, "fetch")
               /\ tmp' = tmp \cup {local_filename}
               /\ pc' = "decode"
               /\ UNCHANGED <<size, local_filename, image, faces, failed_records,
                              successful_records, error, result, decoded, resolved, sent, outcomes>>
          ELSE /\ calls' = calls \o <<"fetch", answer>>
               /\ failed_records' = add_failed(bucket, E_Get, failed_records, key)
               /\ outcomes' = Append(outcomes, [rec |-> Len(event), list |-> "failed",
                                                at |-> Len(failed_records) + 1])
               /\ pc' = "decode"
               /\ UNCHANGED <<size, local_filename, image, faces, successful_records,
                              error, result, decoded, resolved, sent, tmp>>
    /\ UNCHANGED <<has_records, event, blur_type, bucket, key>>
    /\ UNCHANGED <<bvars, pvars>>

\* Lines 130-136: s3.download_file(bucket, key, local_filename) writes the
\* local file, or raises ClientError and writes none.
Fetch ==
    /\ pc = "fetch"
    /\ \E answer \in {"ok", "ClientError"} :
          IF answer = "ok"
          THEN /\ calls' = Append(calls, "fetch")
               /\ tmp' = tmp \cup {local_filename}
               /\ pc' = "decode"
               /\ UNCHANGED <<size, local_filename, image, faces, failed_records,
                              successful_records, error, result, decoded, resolved, sent, outcomes>>
          ELSE /\ calls' = calls \o <<"fetch", answer>>
               /\ FailAndContinue(bucket, key, E_Get)
               /\ UNCHANGED tmp
    /\ UNCHANGED <<has_records, event, blur_type, bucket, key>>
    /\ UNCHANGED <<bvars, pvars>>

\* Lines 138-139: cv2.imread gives None for a file it cannot decode, and
\* None.shape raises AttributeError.
Decode ==
    /\ pc = "decode"
    /\ \E img \in Images \cup {NoImage} :
          /\ image' = img
          /\ decoded' = img
          /\ UNCHANGED resolved
          /\ IF img = NoImage
             THEN Raise("AttributeError")
             ELSE /\ pc' = "detect"
                  /\ UNCHANGED <<failed_records, successful_records, error, result,
                                 sent, outcomes>>
    /\ UNCHANGED <<has_records, event, blur_type, bucket, key, size, local_filename,
                   faces, tmp, calls>>
    /\ UNCHANGED <<bvars, pvars>>

\* Lines 141-155: rekognition.detect_faces on the stored object.
Detect ==
    /\ pc = "detect"
    /\ \/ \E details \in FaceLists :
            /\ calls' = Append(calls, "detect")
            /\ faces' = details
            /\ pc' = IF details = <<>> THEN "store" ELSE "anonymize"
            /\ UNCHANGED <<size, local_filename, image, failed_records,
                           successful_records, error, result, decoded, resolved, sent, outcomes>>
       \/ /\ calls' = calls \o <<"detect", "AccessDeniedException">>
          /\ FailAndContinue(bucket, key, E_Detect)
       \/ /\ calls' = calls \o <<"detect", "InvalidS3ObjectException">>
          /\ FailAndContinue(bucket, key, E_Meta)
    /\ UNCHANGED <<has_records, event, blur_type, bucket, key, tmp>>
    /\ UNCHANGED <<bvars, pvars>>

\* anonymize_face_simple(face, factor=3.0) raises cv2.error when
\* cv2.GaussianBlur refuses the kernel, and returns what it returns otherwise.
BlurRaises(face) == ~KernelAccepted(Kernel(face))
anonymize_face_simple(face) == GaussianBlur(face, Kernel(face))

\* Lines 158-176, one turn of the loop over the detected faces.  The face
\* is a view of the image: the pixelate variant writes through it, and the
\* assignment of line 176 stores what the variant returned.
AnonymizeFace ==
    /\ pc = "anonymize"
    /\ LET r == Rect(Head(faces), image.w, image.h)
           face == Slice(image, r.y1, r.y2, r.x1, r.x2)
       IN  IF blur_type = "pixelate"
           THEN /\ image' = Paste(image, r.y1, r.x1, anonymize_face_pixelate(face, Blocks))
                /\ faces' = Tail(faces)
                /\ pc' = IF Tail(faces) = <<>> THEN "store" ELSE "anonymize"
                /\ UNCHANGED <<failed_records, successful_records, error, result,
                               sent, outcomes>>
           ELSE IF BlurRaises(face)
           THEN /\ Raise("cv2.error")
                /\ UNCHANGED <<image, faces>>
           ELSE /\ \E out \in anonymize_face_simple(face) :
                      image' = Paste(image, r.y1, r.x1, out)
                /\ faces' = Tail(faces)
                /\ pc' = IF Tail(faces) = <<>> THEN "store" ELSE "anonymize"
                /\ UNCHANGED <<failed_records, successful_records, error, result,
                               sent, outcomes>>
    /\ calls' = Append(calls, "anonymize")
    /\ resolved' = [box |-> Head(faces), rect |-> Rect(Head(faces), image.w, image.h)]
    /\ UNCHANGED <<has_records, event, blur_type, bucket, key, size, local_filename,
                   tmp, decoded>>
    /\ UNCHANGED <<bvars, pvars>>

\* The store step, were it to send a blackened image.
StoreBlackened ==
    /\ pc = "store"
    /\ \E answer \in {"ok", "S3UploadFailedError"} :
          IF answer = "ok"
          THEN /\ calls' = Append(calls, "store")
               /\ pc' = "cleanup"
               /\ sent' = Rectangle(image, 0, 0, image.w, image.h, 0)
               /\ UNCHANGED <<size, local_filename, image, faces, failed_records,
                              successful_records, error, result, decoded, resolved, outcomes>>
          ELSE /\ calls' = calls \o <<"store", answer>>
               /\ FailAndContinue(bucket, key, E_Put)
    /\ UNCHANGED <<has_records, event, blur_type, bucket, key, tmp>>
    /\ UNCHANGED <<bvars, pvars>>

\* Lines 178-187: cv2.imwrite over the local file, then s3.upload_file.
Store ==
    /\ pc = "store"
    /\ \E answer \in {"ok", "S3UploadFailedError"} :
          IF answer = "ok"
          THEN /\ calls' = Append(calls, "store")
               /\ pc' = "cleanup"
               /\ sent' = image
               /\ UNCHANGED <<size, local_filename, image, faces, failed_records,
                              successful_records, error, result, decoded, resolved, outcomes>>
          ELSE /\ calls' = calls \o <<"store", answer>>
               /\ FailAndContinue(bucket, key, E_Put)
    /\ UNCHANGED <<has_records, event, blur_type, bucket, key, tmp>>
    /\ UNCHANGED <<bvars, pvars>>

\* Lines 189-196: remove the local file, record the success.
Cleanup ==
    /\ pc = "cleanup"
    /\ tmp' = tmp \ {local_filename}
    /\ successful_records' = Append(successful_records, [bucket |-> bucket, key |-> key])
    /\ outcomes' = Append(outcomes, [rec |-> Len(event), list |-> "successful",
                                     at |-> Len(successful_records) + 1])
    /\ pc' = "next"
    /\ size' = NoSize /\ local_filename' = NoKey /\ image' = NoImage /\ faces' = <<>>
    /\ decoded' = NoImage /\ sent' = NoImage /\ resolved' = NoResolved
    /\ UNCHANGED <<has_records, event, blur_type, bucket, key, failed_records, error,
                   result, calls>>
    /\ UNCHANGED <<bvars, pvars>>

\* Lines 198-207, once the batch is exhausted.
Return ==
    /\ pc = "next"
    /\ pc' = "returned"
    /\ result' = [statusCode |-> 200,
                  failed_records |-> failed_records,
                  successful_records |-> successful_records]
    /\ UNCHANGED <<has_records, event, blur_type, bucket, key, size, local_filename,
                   image, faces, failed_records, successful_records, tmp, error, calls,
                   decoded, resolved, sent, outcomes>>
    /\ UNCHANGED <<bvars, pvars>>

\* The variables of the anonymizers on their own, at rest.
Idle == region = NoImage /\ kernel = <<0, 0>> /\ blurred = NONE
        /\ grid = NoImage /\ original = NoImage /\ blocks = 0 /\ cell = 0

Init == HandlerInit /\ Idle

Next ==
    \/ Start \/ NextRecord \/ Parse \/ SizeCheck \/ TypeCheck \/ Fetch \/ Decode
    \/ Detect \/ AnonymizeFace \/ Store \/ Cleanup \/ Return

Spec == Init /\ [][Next]_vars

\* lambda_handler before any call of it, for the anonymizers on their own.
HandlerIdle ==
    /\ has_records = TRUE /\ blur_type = "blur" /\ event = <<>> /\ pc = "idle"
    /\ bucket = UNBOUND /\ key = NoKey
    /\ size = NoSize /\ local_filename = NoKey /\ image = NoImage /\ faces = <<>>
    /\ failed_records = <<>> /\ successful_records = <<>>
    /\ tmp = {}
    /\ error = NONE /\ result = NoResult
    /\ calls = <<>> /\ decoded = NoImage /\ sent = NoImage /\ outcomes = <<>>
    /\ resolved = NoResolved

(***************************************************************************)
(* anonymize_face_simple on its own: every region of up to MaxDim pixels a *)
(* side is given to it once.  Only the shape of the region decides the     *)
(* kernel, so the regions are black.                                       *)
(***************************************************************************)
BlurInit ==
    /\ HandlerIdle
    /\ \E h \in 1..MaxDim, w \in 1..MaxDim : region = MkImage(h, w, [y \in Rows(h) |-> [x \in Cols(w) |-> 0]])
    /\ kernel = <<0, 0>> /\ blurred = NONE
    /\ grid = NoImage /\ original = NoImage /\ blocks = 0 /\ cell = 0

\* Lines 39-53: the kernel is computed and cv2.GaussianBlur is called with it,
\* whatever it is; the call returns the blurred region or raises cv2.error.
BlurCall ==
    /\ blurred = NONE
    /\ kernel' = Kernel(region)
    /\ blurred' = IF BlurRaises(region) THEN "cv2.error" ELSE "returned"
    /\ UNCHANGED <<region, hvars, pvars>>

BlurNext == BlurCall

SpecBlur == BlurInit /\ [][BlurNext]_vars

(***************************************************************************)
(* anonymize_face_pixelate on its own, one cell of the grid at a time.     *)
(***************************************************************************)
PixVals == {0, 3}

PixelateInit ==
    /\ HandlerIdle
    /\ region = NoImage /\ kernel = <<0, 0>> /\ blurred = NONE
    /\ blocks \in 1..MaxBlocks
    /\ \E h \in 1..MaxArea, w \in 1..MaxArea :
          /\ h * w <= MaxArea
          /\ original \in RegionsOf(h, w, PixVals)
    /\ grid = original
    /\ cell = 0

\* One turn of the inner loop, lines 79-93: cell number `cell`, cells counted
\* row by row from 0.
PixelateStep ==
    /\ cell < blocks * blocks
    /\ grid' = PixelateCell(grid, blocks, (cell \div blocks) + 1, (cell % blocks) + 1)
    /\ cell' = cell + 1
    /\ UNCHANGED <<original, blocks, hvars, bvars>>

PixelateNext == PixelateStep

SpecPixelate == PixelateInit /\ [][PixelateNext]_vars

(***************************************************************************)
(* The body of the loop over the detected faces on its own, lines 158-176: *)
(* the handler stands before the loop with one detected face, for every    *)
(* bounding box whose fractions are multiples of 1/Den in [0, 1], for      *)
(* small images of every shape and for one image wide enough for the blur  *)
(* variant to work with a kernel wider than one pixel.                     *)
(***************************************************************************)
AllBoxes == [Left : 0..Den, Top : 0..Den, Width : 0..Den, Height : 0..Den]

\* The wide image is black but for two pixels.
FaceImages ==
    {MkImage(h, w, [y \in Rows(h) |-> [x \in Cols(w) |-> 10 * (y * w + x) + 10]]) :
        h \in 1..MaxSide, w \in 1..MaxSide}
    \cup {MkImage(WideH, WideW, [y \in Rows(WideH) |-> [x \in Cols(WideW) |->
              IF (y = 1 /\ x = 5) \/ (y = WideH - 1 /\ x = 0) THEN 1 ELSE 0]])}

FaceInit ==
    /\ has_records = TRUE
    /\ blur_type \in {"pixelate", "blur"}
    /\ event = <<[bucket |-> "in1", key |-> <<"d", "%2F", "a", "%2E", "png">>, size |-> MaxSize]>>
    /\ pc = "anonymize"
    /\ bucket = record.bucket /\ key = unquote_plus(record.key)
    /\ size = record.size /\ local_filename = LocalFilename(key)
    /\ image \in FaceImages
    /\ decoded = image
    /\ \E box \in AllBoxes : faces = <<box>>
    /\ failed_records = <<>> /\ successful_records = <<>>
    /\ tmp = {local_filename}
    /\ error = NONE /\ result = NoResult
    /\ calls = <<"fetch", "detect">> /\ sent = NoImage /\ outcomes = <<>>
    /\ resolved = NoResolved
    /\ Idle

FaceNext == AnonymizeFace

SpecFace == FaceInit /\ [][FaceNext]_vars

(***************************************************************************)
(* Properties of lambda_handler.                                           *)
(***************************************************************************)
\* The handler has left the loop body of the current record without an
\* exception.
Finished == Len(event) > 0 /\ pc \in {"next", "returned"}

\* The entries of the two lists that came from the i-th record.
EntriesOf(i) == {n \in 1..Len(outcomes) : outcomes[n].rec = i}

\* The i-th record has exactly one entry, a failure with this message.
FailedWith(i, error_message) ==
    /\ Cardinality(EntriesOf(i)) = 1
    /\ \A n \in EntriesOf(i) :
          /\ outcomes[n].list = "failed"
          /\ failed_records[outcomes[n].at].error_message = error_message

\* The string k ends in '.' followed by ext.
EndsIn(k, ext) == Len(k) >= 2 /\ k[Len(k) - 1] = "." /\ k[Len(k)] = ext
SupportedKey(k) == EndsIn(k, "png") \/ EndsIn(k, "jpeg") \/ EndsIn(k, "jpg")

\* C1: for every batch and every answer of the collaborators, no exception
\* leaves lambda_handler, and what it returns carries status 200.
C1_NeverRaises ==
    /\ has_records => pc # "raised"
    /\ pc = "returned" => result.statusCode = 200

\* C2: once the handler is done with a record for which it called
\* download_file, the record's local file exists no more.
C2_TmpReleased ==
    (Finished /\ calls # <<>>) => LocalFilename(key) \notin tmp

\* C3: when the call on a batch of N records ends, it has returned, every
\* record has exactly one entry in exactly one of the two lists, the lists
\* hold N entries together, and each list is in the order of the records.
C3_Bookkeeping ==
    (has_records /\ pc \in {"returned", "raised"}) =>
        /\ pc = "returned"
        /\ \A i \in 1..Len(event) : Cardinality(EntriesOf(i)) = 1
        /\ Len(outcomes) = Len(event)
        /\ Len(result.failed_records) + Len(result.successful_records) = Len(event)
        /\ \A m, n \in 1..Len(outcomes) :
              (m < n /\ outcomes[m].list = outcomes[n].list)
                  => (outcomes[m].rec < outcomes[n].rec /\ outcomes[m].at < outcomes[n].at)

C5_AlwaysUnsupported ==
    (Len(event) > 0 /\ WellFormed(record) /\ ~SupportedKey(unquote_plus(record.key))) =>
        /\ calls = <<>>
        /\ Finished => FailedWith(Len(event), E_Type)

\* C5, amended: a record that carries bucket, key and size, whose size does
\* not exceed 15728640 and whose key does not end in .png, .jpeg or .jpg gets
\* exactly one entry, a failure with the unsupported-type message, with no
\* fetch, detect or store call made for it.
C5_TypeCheck ==
    (/\ Len(event) > 0 /\ WellFormed(record)
     /\ record.size <= 15728640
     /\ ~SupportedKey(unquote_plus(record.key))) =>
        /\ calls = <<>>
        /\ pc \in {"parse", "size_check", "type_check", "next", "returned"}
        /\ Finished => FailedWith(Len(event), E_Type)

\* A record within the size limit was refused for its type.
C5_Witness ==
    /\ pc = "next" /\ Len(event) > 0
    /\ WellFormed(record) /\ record.size <= 15728640
    /\ ~SupportedKey(unquote_plus(record.key))
    /\ FailedWith(Len(event), E_Type)
    /\ calls = <<>>

\* C6: a record without bucket, key or size gets exactly one entry, a failure
\* with the missing-S3-data message, wherever it stands in the batch, and the
\* loop goes on.
C6_Malformed ==
    (Len(event) > 0 /\ ~WellFormed(record) /\ pc # "parse") =>
        /\ pc \in {"next", "returned"}
        /\ FailedWith(Len(event), E_NoS3)

\* C7: a call that ends without having taken a record, the batch being
\* empty or the event carrying no 'Records', has returned two empty lists and
\* status 200.
C7_EmptyBatch ==
    (pc \in {"returned", "raised"} /\ event = <<>>) =>
        result = [statusCode |-> 200, failed_records |-> <<>>, successful_records |-> <<>>]

(***************************************************************************)
(* Properties of anonymize_face_simple.                                    *)
(***************************************************************************)
\* C8: for every region, each side of the kernel handed to cv2.GaussianBlur
\* is odd and at least 1, and is floor(side / 3) less 1 when that is even.
C8_KernelOddPositive ==
    blurred # NONE =>
        \A d \in {1, 2} :
            LET side == IF d = 1 THEN region.w ELSE region.h
                raw == side \div 3
            IN  /\ kernel[d] % 2 = 1
                /\ kernel[d] >= 1
                /\ kernel[d] = IF raw % 2 = 0 THEN raw - 1 ELSE raw

\* C9: when floor(width / 3) or floor(height / 3) is not positive, the call
\* fails with InvalidRegion and cv2.GaussianBlur is not called.
C9_InvalidRegion ==
    (blurred # NONE /\ (region.w \div 3 <= 0 \/ region.h \div 3 <= 0)) =>
        /\ blurred = "InvalidRegion"
        /\ kernel = <<0, 0>>

(***************************************************************************)
(* Properties of anonymize_face_pixelate.                                  *)
(***************************************************************************)
\* The cells of one axis of length n that hold coordinate v: the j with
\* steps[j - 1] <= v < steps[j].
CellsOf(v, n, b) == {j \in 1..b : (((j - 1) * n) \div b) <= v /\ v < ((j * n) \div b)}

\* Every cell filled with the mean of its own pixels in `input`.
MeanOfOwnCell(input, b) ==
    MkImage(input.h, input.w,
            [y \in Rows(input.h) |-> [x \in Cols(input.w) |->
                LET i == CHOOSE c \in CellsOf(y, input.h, b) : TRUE
                    j == CHOOSE c \in CellsOf(x, input.w, b) : TRUE
                IN  MeanOf(input, ((i - 1) * input.h) \div b, (i * input.h) \div b,
                           ((j - 1) * input.w) \div b, (j * input.w) \div b)]])

\* C10: after the loops every pixel lies in exactly one cell of the grid and
\* holds the truncated mean of the pixels its cell had in the input.  It is
\* stated for the regions of at least `blocks` pixels a side, where every
\* cell of the grid has pixels.
C10_MeanOfOriginalCell ==
    (/\ blocks > 0 /\ cell = blocks * blocks
     /\ original.w >= blocks /\ original.h >= blocks) =>
        /\ \A y \in 0..(original.h - 1) : Cardinality(CellsOf(y, original.h, blocks)) = 1
        /\ \A x \in 0..(original.w - 1) : Cardinality(CellsOf(x, original.w, blocks)) = 1
        /\ grid = MeanOfOwnCell(original, blocks)

\* C11: pixelating what a first application returned, with the same blocks
\* value, returns it unchanged.  It is stated for the regions of at least
\* `blocks` pixels a side, where every cell of the grid has pixels.
C11_Idempotent ==
    (/\ blocks > 0 /\ cell = blocks * blocks
     /\ original.w >= blocks /\ original.h >= blocks) =>
        anonymize_face_pixelate(grid, blocks) = grid

\* The boundaries np.linspace gives for an axis of length n: they start at 0,
\* end at n and never decrease.
BoundariesOrdered(n, b) ==
    /\ Linspace(n, b)[0] = 0
    /\ Linspace(n, b)[b] = n
    /\ \A j \in 1..b : Linspace(n, b)[j - 1] <= Linspace(n, b)[j]

\* The cell the next turn of the loops works on has no pixel.
ZeroAreaCell ==
    LET i == (cell \div blocks) + 1
        j == (cell % blocks) + 1
    IN  \/ Linspace(grid.h, blocks)[i - 1] = Linspace(grid.h, blocks)[i]
        \/ Linspace(grid.w, blocks)[j - 1] = Linspace(grid.w, blocks)[j]

\* C12: the boundaries of both axes start at 0, end at the axis length and
\* never decrease, and a turn of the loops on a cell without pixels changes
\* no pixel of the region.
C12_ZeroAreaNoOp ==
    [][/\ BoundariesOrdered(grid.w, blocks)
       /\ BoundariesOrdered(grid.h, blocks)
       /\ ZeroAreaCell => grid' = grid]_vars

(***************************************************************************)
(* Properties of the loop over the detected faces.                         *)
(***************************************************************************)
\* The rectangle of the face the loop is about to work on.
NextRect == Rect(Head(faces), image.w, image.h)

\* 0 <= x1 <= x2 <= W and 0 <= y1 <= y2 <= H
PixelRectInvariant(r, W, H) ==
    /\ 0 <= r.x1 /\ r.x1 <= r.x2 /\ r.x2 <= W
    /\ 0 <= r.y1 /\ r.y1 <= r.y2 /\ r.y2 <= H

\* The box does not reach beyond the right or the lower edge of the image.
WithinImage(box) == box.Left + box.Width <= Den /\ box.Top + box.Height <= Den

\* The pixel (y, x) lies in the rectangle r.
Inside(r, y, x) == r.y1 <= y /\ y < r.y2 /\ r.x1 <= x /\ x < r.x2

\* C13 as claimed: for every bounding box with its four fractions in [0, 1]
\* and every image, the rectangle resolved by lines 161-164 satisfies
\* 0 <= x1 <= x2 <= W and 0 <= y1 <= y2 <= H.
C13_EveryBox ==
    resolved # NoResolved => PixelRectInvariant(resolved.rect, image.w, image.h)

\* C13, amended: for every bounding box with its four fractions in [0, 1],
\* left + width <= 1 and top + height <= 1, and every image, the rectangle
\* resolved by lines 161-164 satisfies 0 <= x1 <= x2 <= W and
\* 0 <= y1 <= y2 <= H, with x1 = floor(left * W), x2 = x1 + floor(width * W),
\* y1 = floor(top * H) and y2 = y1 + floor(height * H).
C13_BoxWithinImage ==
    (resolved # NoResolved /\ WithinImage(resolved.box)) =>
        /\ PixelRectInvariant(resolved.rect, image.w, image.h)
        /\ Den * resolved.rect.x1 <= resolved.box.Left * image.w
        /\ resolved.box.Left * image.w < Den * (resolved.rect.x1 + 1)
        /\ Den * resolved.rect.y1 <= resolved.box.Top * image.h
        /\ resolved.box.Top * image.h < Den * (resolved.rect.y1 + 1)
        /\ Den * (resolved.rect.x2 - resolved.rect.x1) <= resolved.box.Width * image.w
        /\ resolved.box.Width * image.w < Den * (resolved.rect.x2 - resolved.rect.x1 + 1)
        /\ Den * (resolved.rect.y2 - resolved.rect.y1) <= resolved.box.Height * image.h
        /\ resolved.box.Height * image.h < Den * (resolved.rect.y2 - resolved.rect.y1 + 1)

\* A box that ends on the right and lower edges of the image, and whose
\* left and top products with the sides of the image are no integers, has
\* been resolved to a rectangle with pixels.
C13_Witness ==
    /\ resolved # NoResolved
    /\ resolved.box.Left + resolved.box.Width = Den
    /\ resolved.box.Top + resolved.box.Height = Den
    /\ (resolved.box.Left * image.w) % Den # 0
    /\ (resolved.box.Top * image.h) % Den # 0
    /\ resolved.rect.x1 < resolved.rect.x2
    /\ resolved.rect.y1 < resolved.rect.y2

\* C14: one turn of the loop over the faces, with either variant, leaves the
\* image its shape and every pixel outside the resolved rectangle its value.
C14_FrameOfFace ==
    [][pc = "anonymize" =>
          /\ image'.h = image.h /\ image'.w = image.w
          /\ \A y \in Rows(image.h), x \in Cols(image.w) :
                (~Inside(NextRect, y, x)) => Pixel(image', y, x) = Pixel(image, y, x)]_vars

\* The blur variant has changed the image, with a kernel wider than one
\* pixel, and outside the rectangle of the face there is a pixel that is not
\* black.
C14_Witness ==
    /\ pc = "store" /\ calls = <<"fetch", "detect", "anonymize">>
    /\ blur_type = "blur"
    /\ image # decoded
    /\ \E y \in Rows(image.h), x \in Cols(image.w) :
          /\ ~Inside(resolved.rect, y, x)
          /\ Pixel(decoded, y, x) # 0
          /\ Pixel(image, y, x) = Pixel(decoded, y, x)

(***************************************************************************)
(* Properties of one record's steps.                                       *)
(***************************************************************************)
\* The i-th record has exactly one entry, a success under its own bucket
\* and key.
Succeeded(i) ==
    /\ Cardinality(EntriesOf(i)) = 1
    /\ \A n \in EntriesOf(i) :
          /\ outcomes[n].list = "successful"
          /\ successful_records[outcomes[n].at]
                = [bucket |-> event[i].bucket, key |-> unquote_plus(event[i].key)]

\* The detector was asked about the current record and returned no face:
\* the store step followed the detect call at once.
NoFaces == Len(calls) >= 3 /\ SubSeq(calls, 1, 3) = <<"fetch", "detect", "store">>

\* C15 as claimed: a record that was fetched and decoded and for which the
\* detector returned no face ends as a success, and the image sent to the
\* output bucket is the decoded one.
C15_NoFacesSuccess ==
    /\ (pc = "cleanup" /\ NoFaces) => sent = decoded
    /\ (Finished /\ NoFaces) => Succeeded(Len(event))

\* C15, amended: a record that was fetched and decoded, for which the
\* detector returned no face and whose upload did not fail ends as a
\* success, and the image sent to the output bucket is the decoded one; when
\* the upload fails, the record ends as a failure with the PutObject message.
C15_NoFacesStored ==
    /\ (pc = "cleanup" /\ NoFaces) => (sent = decoded /\ sent # NoImage)
    /\ (Finished /\ calls = <<"fetch", "detect", "store">>) => Succeeded(Len(event))
    /\ (Finished /\ calls = <<"fetch", "detect", "store", "S3UploadFailedError">>)
          => FailedWith(Len(event), E_Put)

\* The image of a record without faces has been sent as it was decoded.
C15_Witness ==
    /\ pc = "cleanup" /\ calls = <<"fetch", "detect", "store">>
    /\ decoded \in Images /\ sent = decoded
    /\ Len(event) = 2

\* The buckets and keys a record of the batch can carry.
KnownBuckets == Buckets
KnownKeys == {unquote_plus(k) : k \in RawKeys}

\* C16: every failure carries the bucket and the key of the record it came
\* from, and where that record carries no bucket or no key, the failure does
\* not carry the bucket or key of any record.
C16_OwnBucketAndKey ==
    \A n \in 1..Len(outcomes) :
        outcomes[n].list = "failed" =>
            LET entry == failed_records[outcomes[n].at]
                from == event[outcomes[n].rec]
            IN  /\ IF from.bucket # MISSING
                   THEN entry.bucket = from.bucket
                   ELSE entry.bucket \notin KnownBuckets
                /\ IF from.key # NoKey
                   THEN entry.key = unquote_plus(from.key)
                   ELSE entry.key \notin KnownKeys

\* The last entry of the call history of the current record.
LastCall == IF calls = <<>> THEN NONE ELSE calls[Len(calls)]

\* The calls of one record come in the order fetch, detect, anonymize (once
\* for every face), store; each of fetch, detect and store is made at most
\* once, and nothing follows the exception of a collaborator.
CallsInOrder ==
    \A m \in 1..Len(calls) :
        /\ calls[m] = "fetch" => m = 1
        /\ calls[m] = "detect" => (m = 2 /\ calls[1] = "fetch")
        /\ calls[m] = "anonymize" => (m >= 3 /\ calls[m - 1] \in {"detect", "anonymize"})
        /\ calls[m] = "store" => (m >= 3 /\ calls[m - 1] \in {"detect", "anonymize"})
        /\ calls[m] = "ClientError" => (m = Len(calls) /\ calls[m - 1] = "fetch")
        /\ calls[m] \in {"AccessDeniedException", "InvalidS3ObjectException"}
              => (m = Len(calls) /\ calls[m - 1] = "detect")
        /\ calls[m] = "S3UploadFailedError" => (m = Len(calls) /\ calls[m - 1] = "store")

\* Where the handler stands agrees with the steps taken so far.
StepsInOrder ==
    /\ pc \in {"parse", "size_check", "type_check", "fetch"} => calls = <<>>
    /\ pc = "type_check" => ~TooLarge(size)
    /\ pc = "fetch" => (~TooLarge(size) /\ ~Unsupported(local_filename))
    /\ pc \in {"decode", "detect"} => calls = <<"fetch">>
    /\ pc \in {"anonymize", "store"} => LastCall \in {"detect", "anonymize"}
    /\ pc = "cleanup" => LastCall = "store"

\* C17: the steps of a record run in their fixed order, detect only after a
\* fetch that succeeded and store only after a detect that succeeded; no step
\* is made twice; a record whose fetch, detect or store failed has exactly
\* one entry, a failure with the message of that step, and nothing was called
\* for it after the failure; a record is a success only when its store
\* succeeded.
C17_ShortCircuit ==
    /\ CallsInOrder
    /\ StepsInOrder
    /\ Finished =>
          /\ LastCall = "ClientError" => FailedWith(Len(event), E_Get)
          /\ LastCall = "AccessDeniedException" => FailedWith(Len(event), E_Detect)
          /\ LastCall = "InvalidS3ObjectException" => FailedWith(Len(event), E_Meta)
          /\ LastCall = "S3UploadFailedError" => FailedWith(Len(event), E_Put)
          /\ (\E n \in EntriesOf(Len(event)) : outcomes[n].list = "successful")
                => (LastCall = "store" /\ Succeeded(Len(event)))

\* The second record of a batch was fetched, its one face anonymized, and
\* its upload failed: it has the PutObject failure.
C17_Witness ==
    /\ pc = "next" /\ Len(event) = 2
    /\ calls = <<"fetch", "detect", "anonymize", "store", "S3UploadFailedError">>
    /\ FailedWith(2, E_Put)

====
